---------------------------- MODULE Spec2Model ----------------------------
(***************************************************************************)
(* A model of the api_framework package: the reporting pipeline            *)
(* (reporting.py: TestResult, MetricsCollector, ReportGenerator), the      *)
(* logging pipeline (logger.py: APILogger), the validators and the         *)
(* api_test wrapper (assertions.py) and the retrying request of the HTTP   *)
(* client (client.py: APIClient._make_request).                            *)
(*                                                                         *)
(* Conventions.                                                            *)
(*  - Optional[T] is a sequence: <<>> is None, <<x>> is the value x.       *)
(*  - A float duration is an integer number of tenths of a second.         *)
(*  - A quotient of two numbers is the reduced fraction <<num, den>>.      *)
(*  - A text (method, endpoint, dict key) is a sequence of tokens, so that *)
(*    formatting f"{a} {b}" is the concatenation a \o <<" ">> \o b.        *)
(*  - A dict is a function whose DOMAIN is the set of keys present; where  *)
(*    the order of its items matters it is the sequence of <<key, value>>. *)
(***************************************************************************)
EXTENDS Integers, Sequences, FiniteSets, TLC

(***************************************************************************)
(* Bounds of the model.                                                    *)
(***************************************************************************)
\* outcomes handed to ReportGenerator.add_result in one run
MaxSubmit == 3
\* direct calls of MetricsCollector.add_result in one run (SpecMetrics)
MaxIngest == 2
\* calls of export_csv in one run
MaxExports == 1
\* entries put on the log queue in one run
MaxLogged == 3
\* puts on both queues together in one run of both pipelines (Spec)
MaxPuts == 4
\* export_json calls, and puts beside them, of one run (SpecJson)
MaxJsonExports == 2
MaxJsonPuts == 2
\* calls of api_test wrappers in one run
MaxCalls == 1
\* logger calls with headers or a body in one run (SpecMask)
MaxMasked == 1
\* puts on either queue in one run with both shutdowns (SpecShutdown)
MaxShutdownPuts == 2
\* outcomes submitted in one run with every reader (SpecReaders)
MaxReaderPuts == 1
\* calls of each export in such a run
MaxReaderExports == 1
\* outcomes and other objects submitted in one run (SpecObjects)
MaxObjectPuts == 3
\* calls of APIClient._make_request in one run
MaxRequests == 1

(***************************************************************************)
(* Program constants.                                                      *)
(***************************************************************************)
\* Queue() is built without a maxsize: 0 means "no limit" (queue.Queue)
QueueMaxsize == 0

\* self.config.get("retry_attempts", 3) and self.config.get("retry_delay", 1),
\* which are also the values Config.set_defaults stores
RetryAttemptsDefault == 3
RetryDelayDefault == 1

None == <<>>
Some(x) == <<x>>

\* the threads that run tests and call add_result / log_request
Producers == {"TestA", "TestB"}

(***************************************************************************)
(* TestResult (reporting.py, the dataclass)                                *)
(***************************************************************************)
TestResultFields ==
    {"test_name", "test_class", "status", "execution_time", "timestamp",
     "endpoint", "method", "response_code", "error_message",
     "request_headers", "response_headers", "validation_errors"}

\* the keyword constructor: the five optional fields default to None
TestResult(name, class, status, time, stamp, endpoint, method, code, msg) ==
    [test_name |-> name, test_class |-> class, status |-> status,
     execution_time |-> time, timestamp |-> stamp, endpoint |-> endpoint,
     method |-> method, response_code |-> code, error_message |-> msg,
     request_headers |-> None, response_headers |-> None,
     validation_errors |-> None]

\* what a caller may put into status, execution_time, method, endpoint,
\* response_code and error_message
Statuses == {"SUCCESS", "FAILED", "ERROR"}
Durations == {5, 15}
Methods == {<<"GET">>, <<"POST">>}
Endpoints == {<<"/users">>}
ResponseCodes == {None, Some(0), Some(200), Some(500)}

\* the outcomes the test threads of the pipeline produce
PipelineOutcomes ==
    { [status |-> "SUCCESS", execution_time |-> 5, method |-> <<"GET">>,
       endpoint |-> <<"/users">>, response_code |-> Some(200),
       error_message |-> None],
      [status |-> "FAILED", execution_time |-> 15, method |-> <<"GET">>,
       endpoint |-> <<"/users">>, response_code |-> Some(500),
       error_message |-> Some("bad field")],
      [status |-> "ERROR", execution_time |-> 5, method |-> <<"POST">>,
       endpoint |-> <<"/users">>, response_code |-> None,
       error_message |-> Some("connection refused")] }

\* the outcome of the n-th test of a session that runs a passing, a failing
\* and a faulting test in turn
PlannedOutcome(n) ==
    CHOOSE o \in PipelineOutcomes :
        o.status = <<"SUCCESS", "FAILED", "ERROR">>[((n - 1) % 3) + 1]

(***************************************************************************)
(* Arithmetic on quotients                                                 *)
(***************************************************************************)
RECURSIVE GCD(_, _)
GCD(a, b) == IF b = 0 THEN a ELSE GCD(b, a % b)

\* a / b for naturals a and b > 0, as a reduced fraction
Quotient(a, b) ==
    LET g == GCD(a, b) IN <<a \div g, b \div g>>

\* q * k for a fraction q and a natural k
Scale(q, k) == Quotient(q[1] * k, q[2])

RECURSIVE SumSeq(_)
SumSeq(s) == IF s = <<>> THEN 0 ELSE Head(s) + SumSeq(Tail(s))

(***************************************************************************)
(* MetricsCollector                                                        *)
(***************************************************************************)
EmptyDict == [k \in {} |-> 0]

\* MetricsCollector.__init__
MetricsInit ==
    [total_tests |-> 0, passed_tests |-> 0, failed_tests |-> 0,
     error_tests |-> 0, total_execution_time |-> 0,
     response_times |-> EmptyDict, status_codes |-> EmptyDict]

\* f"{result.method} {result.endpoint}"
EndpointKey(result) == result.method \o <<" ">> \o result.endpoint

\* Python truth value of an Optional[int]: None and 0 are false
Truthy(code) == code # None /\ code[1] # 0

\* dict.get(key, default)
DictGet(d, key, default) == IF key \in DOMAIN d THEN d[key] ELSE default

\* d[key] = value
DictSet(d, key, value) ==
    [k \in DOMAIN d \cup {key} |-> IF k = key THEN value ELSE d[k]]

\* the status branch without its final else: an ERROR outcome is not counted
CountStatusWithoutElse(m, result) ==
    IF result.status = "SUCCESS"
    THEN [m EXCEPT !.passed_tests = @ + 1]
    ELSE IF result.status = "FAILED"
         THEN [m EXCEPT !.failed_tests = @ + 1]
         ELSE m

\* the status branch of MetricsCollector.add_result
CountStatus(m, result) ==
    IF result.status = "SUCCESS"
    THEN [m EXCEPT !.passed_tests = @ + 1]
    ELSE IF result.status = "FAILED"
         THEN [m EXCEPT !.failed_tests = @ + 1]
         ELSE [m EXCEPT !.error_tests = @ + 1]

\* the response_times part of MetricsCollector.add_result
RecordTime(m, result) ==
    LET key == EndpointKey(result)
        times == DictGet(m.response_times, key, <<>>)
    IN  [m EXCEPT !.response_times =
            DictSet(@, key, Append(times, result.execution_time))]

\* the status_codes part of MetricsCollector.add_result
RecordCode(m, result) ==
    IF Truthy(result.response_code)
    THEN LET code == result.response_code[1]
         IN  [m EXCEPT !.status_codes =
                 DictSet(@, code, DictGet(@, code, 0) + 1)]
    ELSE m

\* MetricsCollector.add_result: the whole body runs under self._lock
add_result(m, result) ==
    LET m1 == [m EXCEPT !.total_tests = @ + 1,
                        !.total_execution_time = @ + result.execution_time]
    IN  RecordCode(RecordTime(CountStatus(m1, result), result), result)

\* success_rate with a floor division: passed // total * 100
SuccessRateFloorDiv(m) ==
    IF m.total_tests > 0
    THEN <<(m.passed_tests \div m.total_tests) * 100, 1>>
    ELSE <<0, 1>>

\* the success_rate entry of get_metrics
SuccessRate(m) ==
    IF m.total_tests > 0
    THEN Scale(Quotient(m.passed_tests, m.total_tests), 100)
    ELSE <<0, 1>>

\* MetricsCollector.get_metrics: the whole body runs under self._lock
get_metrics(m) ==
    [total_tests |-> m.total_tests,
     passed_tests |-> m.passed_tests,
     failed_tests |-> m.failed_tests,
     error_tests |-> m.error_tests,
     success_rate |-> SuccessRate(m),
     total_execution_time |-> m.total_execution_time,
     average_response_times |->
        [k \in DOMAIN m.response_times |->
            Quotient(SumSeq(m.response_times[k]), Len(m.response_times[k]))],
     status_code_distribution |-> m.status_codes]


(***************************************************************************)
(* State                                                                   *)
(***************************************************************************)
VARIABLES
    \* ReportGenerator
    report_queue,       \* self._queue: the outcomes put and not yet taken
    unfinished_tasks,   \* self._queue.unfinished_tasks (put minus task_done)
    stop_event,         \* self._stop_event.is_set()
    results,            \* self.results
    metrics,            \* self.metrics (the MetricsCollector's fields)
    worker_pc,          \* where _process_queue stands
    worker_item,        \* the local variable result of _process_queue
    \* callers of the ReportGenerator
    submitted,          \* history: the outcomes put, in the order of the puts
    stopped_at,         \* history: Len(submitted) when stop_event was set
    ingests,            \* history: the results of the direct add_result calls
    last_call,          \* history: the last direct call, <<metrics before, result>>
    snapshot,           \* what the last get_metrics() call returned
    csv_pc,             \* where the running export_csv call stands
    csv_index,          \* its position in "for result in self.results"
    csv_file,           \* the lines of the file export_csv writes
    csv_return,         \* how the last export_csv call ended
    exports,            \* history: Len(self.results) at each export_csv call
    \* APILogger
    log_file,           \* self.log_file
    log_queue,          \* self._log_queue
    log_unfinished,     \* self._log_queue.unfinished_tasks
    log_stop,           \* self._stop_event.is_set()
    writer_pc,          \* where _log_writer stands
    writer_item,        \* the local variable log_entry of _log_writer
    log_text,           \* the strings appended to the log file, in order
    stdout,             \* what _write_to_file printed
    logged,             \* history: the entries put, in the order of the puts
    log_stopped_at,     \* history: Len(logged) when log_stop was set
    attempts,           \* history: the _write_to_file calls, in order
    log_args,           \* history: headers and body of each logger call
    \* threads calling MetricsCollector.add_result directly
    lock,               \* self._lock: the thread holding it, or None
    caller_pc,          \* where each thread stands in add_result
    caller_item,        \* each thread's argument result
    caller_tmp,         \* each thread's loaded value of self.total_tests
    calls,              \* history: the results, in the order the lock was taken
    \* a thread calling ReportGenerator.export_json
    json_pc,            \* where the running export_json call stands
    json_metrics,       \* its value of self.metrics.get_metrics()
    json_results,       \* its list of result dicts
    json_file,          \* the document in the file export_json writes
    json_calls,         \* history: the export_json calls that returned
    \* tests wrapped by api_test
    invocations,        \* history: each call of a wrapper and how it ended
    \* a reader of the dict get_metrics() returned
    reader_write,       \* history: the collector before and after its write
    \* a thread inside APIClient._make_request
    rq_pc,              \* where the call stands
    retry_count,        \* the argument retry_count of the running call
    retry_attempts,     \* self.config.get("retry_attempts", 3) of the call
    json_error,         \* what response.json() raises for a body not JSON
    rq_tries,           \* history: how each session.request of the call ended
    rq_slept,           \* history: the time.sleep calls of the call
    rq_result,          \* how the call ended
    rq_history          \* history: the calls that ended

report_vars ==
    <<report_queue, unfinished_tasks, stop_event, results, metrics, worker_pc,
      worker_item, submitted, stopped_at, ingests, last_call, snapshot,
      csv_pc, csv_index, csv_file, csv_return, exports>>

log_vars ==
    <<log_file, log_queue, log_unfinished, log_stop, writer_pc, writer_item,
      log_text, stdout, logged, log_stopped_at, attempts, log_args>>

lock_vars == <<lock, caller_pc, caller_item, caller_tmp, calls>>

\* the variables of the callers around the two pipelines
json_vars == <<json_pc, json_metrics, json_results, json_file, json_calls>>

wrapper_vars == <<invocations>>

reader_vars == <<reader_write>>

client_vars ==
    <<rq_pc, retry_count, retry_attempts, json_error, rq_tries, rq_slept,
      rq_result, rq_history>>

aux_vars == <<lock_vars, json_vars, wrapper_vars, reader_vars, client_vars>>

vars == <<report_vars, log_vars, aux_vars>>

\* the paths a caller may configure as log_file: the default of
\* APILogger.__init__ and Config.set_defaults, and one inside a directory
DefaultLogFile == <<"api_logs.txt">>
LogFiles == {DefaultLogFile, <<"logs", "/", "api_logs.txt">>}

Init ==
    \* ReportGenerator.__init__
    /\ report_queue = <<>>
    /\ unfinished_tasks = 0
    /\ stop_event = FALSE
    /\ results = <<>>
    /\ metrics = MetricsInit
    /\ worker_pc = "loop"
    /\ worker_item = None
    /\ submitted = <<>>
    /\ stopped_at = None
    /\ ingests = <<>>
    /\ last_call = None
    /\ snapshot = None
    /\ csv_pc = "idle"
    /\ csv_index = 0
    /\ csv_file = None
    /\ csv_return = None
    /\ exports = <<>>
    \* APILogger.__init__
    /\ log_file \in LogFiles
    /\ log_queue = <<>>
    /\ log_unfinished = 0
    /\ log_stop = FALSE
    /\ writer_pc = "loop"
    /\ writer_item = None
    /\ log_text = <<>>
    /\ stdout = <<>>
    /\ logged = <<>>
    /\ log_stopped_at = None
    /\ attempts = <<>>
    /\ log_args = <<>>
    \* no thread is inside MetricsCollector.add_result
    /\ lock = None
    /\ caller_pc = [t \in Producers |-> "idle"]
    /\ caller_item = [t \in Producers |-> None]
    /\ caller_tmp = [t \in Producers |-> 0]
    /\ calls = <<>>
    \* no export_json call is running, no report file is written
    /\ json_pc = "idle"
    /\ json_metrics = None
    /\ json_results = <<>>
    /\ json_file = None
    /\ json_calls = <<>>
    \* no wrapped test has run
    /\ invocations = <<>>
    \* no reader has written into a returned report
    /\ reader_write = None
    \* no thread is inside APIClient._make_request
    /\ rq_pc = "idle"
    /\ retry_count = 0
    /\ retry_attempts = RetryAttemptsDefault
    /\ json_error = "RequestException"
    /\ rq_tries = <<>>
    /\ rq_slept = <<>>
    /\ rq_result = None
    /\ rq_history = <<>>

(***************************************************************************)
(* queue.Queue                                                             *)
(***************************************************************************)
\* Queue.put of a queue built as Queue(maxsize=1)
put_enabled_maxsize_one(q) == Len(q) < 1

\* Queue.put blocks while the queue is full; maxsize 0 is never full
put_enabled(q) == QueueMaxsize = 0 \/ Len(q) < QueueMaxsize

\* a LifoQueue: what is put last is taken first
put_lifo(q, item) == <<item>> \o q

\* Queue.put appends at the tail
put(q, item) == Append(q, item)

\* Queue.get takes the head
get_item(q) == Head(q)
get_rest(q) == Tail(q)

(***************************************************************************)
(* ReportGenerator                                                         *)
(***************************************************************************)
\* ReportGenerator.add_result, called by thread p with a fresh TestResult
Submit(p, o) ==
    LET result == TestResult(<<"test", Len(submitted) + 1>>, p, o.status,
                             o.execution_time, Len(submitted) + 1,
                             o.endpoint, o.method, o.response_code,
                             o.error_message)
    IN  /\ Len(submitted) < MaxSubmit
        /\ put_enabled(report_queue)
        /\ report_queue' = put(report_queue, result)
        /\ unfinished_tasks' = unfinished_tasks + 1
        /\ submitted' = Append(submitted, result)
        /\ UNCHANGED <<stop_event, results, metrics, worker_pc, worker_item,
                       stopped_at, ingests, last_call, snapshot, csv_pc,
                       csv_index, csv_file, csv_return, exports, log_vars,
                       aux_vars>>

\* an object that is no TestResult and has no execution_time attribute, as
\* test number n of class p: add_result takes any object
NotATestResult(p, n) ==
    [test_name |-> <<"test", n>>, test_class |-> p, status |-> "SUCCESS"]

\* ReportGenerator.add_result called with such an object
SubmitObject(p) ==
    LET result == NotATestResult(p, Len(submitted) + 1)
    IN  /\ Len(submitted) < MaxSubmit
        /\ put_enabled(report_queue)
        /\ report_queue' = put(report_queue, result)
        /\ unfinished_tasks' = unfinished_tasks + 1
        /\ submitted' = Append(submitted, result)
        /\ UNCHANGED <<stop_event, results, metrics, worker_pc, worker_item,
                       stopped_at, ingests, last_call, snapshot, csv_pc,
                       csv_index, csv_file, csv_return, exports, log_vars,
                       aux_vars>>

\* a loop test that leaves as soon as the stop event is set
worker_continues_until_stop(stop, q) == ~stop

\* the loop test of _process_queue:
\*   while not self._stop_event.is_set() or not self._queue.empty()
worker_continues(stop, q) == ~stop \/ q # <<>>

WorkerLoop ==
    /\ worker_pc = "loop"
    /\ worker_pc' = IF worker_continues(stop_event, report_queue)
                    THEN "get" ELSE "done"
    /\ UNCHANGED <<report_queue, unfinished_tasks, stop_event, results,
                   metrics, worker_item, submitted, stopped_at, ingests,
                   last_call, snapshot, csv_pc, csv_index, csv_file,
                   csv_return, exports, log_vars, aux_vars>>

\* self._queue.get(timeout=1.0) returns the head of the queue
WorkerGet ==
    /\ worker_pc = "get"
    /\ report_queue # <<>>
    /\ worker_item' = Some(get_item(report_queue))
    /\ report_queue' = get_rest(report_queue)
    /\ worker_pc' = "append"
    /\ UNCHANGED <<unfinished_tasks, stop_event, results, metrics, submitted,
                   stopped_at, ingests, last_call, snapshot, csv_pc,
                   csv_index, csv_file, csv_return, exports, log_vars,
                   aux_vars>>

\* self._queue.get(timeout=1.0) raises Empty after a second without an
\* item; "except Exception: continue" goes back to the loop test
WorkerTimeout ==
    /\ worker_pc = "get"
    /\ report_queue = <<>>
    /\ worker_pc' = "loop"
    /\ UNCHANGED <<report_queue, unfinished_tasks, stop_event, results,
                   metrics, worker_item, submitted, stopped_at, ingests,
                   last_call, snapshot, csv_pc, csv_index, csv_file,
                   csv_return, exports, log_vars, aux_vars>>

\* self.results.append(result)
WorkerAppend ==
    /\ worker_pc = "append"
    /\ results' = Append(results, worker_item[1])
    /\ worker_pc' = "ingest"
    /\ UNCHANGED <<report_queue, unfinished_tasks, stop_event, metrics,
                   worker_item, submitted, stopped_at, ingests, last_call,
                   snapshot, csv_pc, csv_index, csv_file, csv_return,
                   exports, log_vars, aux_vars>>

\* a worker that goes on without ingesting the result
WorkerIngestSkipped ==
    /\ worker_pc = "ingest"
    /\ worker_pc' = "task_done"
    /\ UNCHANGED <<report_queue, unfinished_tasks, stop_event, results,
                   metrics, worker_item, submitted, stopped_at, ingests,
                   last_call, snapshot, csv_pc, csv_index, csv_file,
                   csv_return, exports, log_vars, aux_vars>>

\* getattr on an object: a record has the attributes that are its fields
HasAttr(obj, name) == name \in DOMAIN obj

\* add_result raises for an object without execution_time: line 50 reads
\* result.execution_time (AttributeError)
add_result_raises(result) == ~HasAttr(result, "execution_time")

\* the collector such a call leaves behind: line 49 has run, line 50 raised
add_result_interrupted(m, result) == [m EXCEPT !.total_tests = @ + 1]

\* self.metrics.add_result(result); an exception of the call is caught by
\* "except Exception: continue", which goes back to the loop test without
\* task_done()
WorkerIngest ==
    /\ worker_pc = "ingest"
    /\ IF add_result_raises(worker_item[1])
       THEN /\ metrics' = add_result_interrupted(metrics, worker_item[1])
            /\ worker_item' = None
            /\ worker_pc' = "loop"
       ELSE /\ metrics' = add_result(metrics, worker_item[1])
            /\ worker_pc' = "task_done"
            /\ UNCHANGED worker_item
    /\ UNCHANGED <<report_queue, unfinished_tasks, stop_event, results,
                   submitted, stopped_at, ingests, last_call,
                   snapshot, csv_pc, csv_index, csv_file, csv_return,
                   exports, log_vars, aux_vars>>

\* self._queue.task_done(), then back to the loop test
WorkerTaskDone ==
    /\ worker_pc = "task_done"
    /\ unfinished_tasks' = unfinished_tasks - 1
    /\ worker_item' = None
    /\ worker_pc' = "loop"
    /\ UNCHANGED <<report_queue, stop_event, results, metrics, submitted,
                   stopped_at, ingests, last_call, snapshot, csv_pc,
                   csv_index, csv_file, csv_return, exports, log_vars,
                   aux_vars>>

\* ReportGenerator.__del__ sets the stop event (and then joins the worker)
SetStop ==
    /\ ~stop_event
    /\ stop_event' = TRUE
    /\ stopped_at' = Some(Len(submitted))
    /\ UNCHANGED <<report_queue, unfinished_tasks, results, metrics,
                   worker_pc, worker_item, submitted, ingests, last_call,
                   snapshot, csv_pc, csv_index, csv_file, csv_return,
                   exports, log_vars, aux_vars>>

\* a get_metrics that starts a new collection period
GetMetricsAndReset ==
    /\ snapshot' = Some(get_metrics(metrics))
    /\ metrics' = MetricsInit
    /\ UNCHANGED <<report_queue, unfinished_tasks, stop_event, results,
                   worker_pc, worker_item, submitted, stopped_at,
                   ingests, last_call, csv_pc, csv_index, csv_file,
                   csv_return, exports, log_vars, aux_vars>>

\* a call of get_metrics() on the generator's collector, from any thread
GetMetrics ==
    /\ snapshot' = Some(get_metrics(metrics))
    /\ UNCHANGED <<report_queue, unfinished_tasks, stop_event, results,
                   metrics, worker_pc, worker_item, submitted, stopped_at,
                   ingests, last_call, csv_pc, csv_index, csv_file,
                   csv_return, exports, log_vars, aux_vars>>


\* MetricsCollector.add_result called directly (a public method), with any
\* TestResult a caller can build
Ingest(o) ==
    LET result == TestResult(<<"test", Len(ingests) + 1>>, "Direct",
                             o.status, o.execution_time, Len(ingests) + 1,
                             o.endpoint,
                             o.method, o.response_code, None)
    IN  /\ Len(ingests) < MaxIngest
        /\ ingests' = Append(ingests, result)
        /\ last_call' = Some(<<metrics, result>>)
        /\ metrics' = add_result(metrics, result)
        /\ UNCHANGED <<report_queue, unfinished_tasks, stop_event, results,
                       worker_pc, worker_item, submitted, stopped_at,
                       snapshot, csv_pc, csv_index, csv_file, csv_return,
                       exports, log_vars, aux_vars>>

\* the report dict holds self.status_codes itself (line 86), the other
\* entries are values built for the report: what a reader of a returned
\* report finds in it when the collector is m
ReadBack(report, m) ==
    [report EXCEPT !.status_code_distribution = m.status_codes]

\* a reader of the last returned report sets a bucket of its
\* status_code_distribution, which is the collector's status_codes
ReaderWrites(code) ==
    /\ snapshot # None
    /\ reader_write = None
    /\ metrics' = [metrics EXCEPT !.status_codes = DictSet(@, code, 0)]
    /\ reader_write' = Some([before |-> metrics, after |-> metrics'])
    /\ UNCHANGED <<report_queue, unfinished_tasks, stop_event, results,
                   worker_pc, worker_item, submitted, stopped_at, ingests,
                   last_call, snapshot, csv_pc, csv_index, csv_file,
                   csv_return, exports, log_vars, lock_vars, json_vars,
                   wrapper_vars, client_vars>>

AnyOutcome ==
    [status : Statuses, execution_time : Durations, method : Methods,
     endpoint : Endpoints, response_code : ResponseCodes]

(***************************************************************************)
(* MetricsCollector under concurrent callers                               *)
(***************************************************************************)
\* what a direct call of the collector leaves alone in the ReportGenerator
report_rest ==
    <<report_queue, unfinished_tasks, stop_event, results, worker_pc,
      worker_item, submitted, stopped_at, ingests, last_call, csv_pc,
      csv_index, csv_file, csv_return, exports>>

\* a collector whose methods do not take the lock
lock_free_unlocked(l) == TRUE

\* "with self._lock:" lets a thread in when no thread holds the lock
lock_free(l) == l = None

\* add_result, line 48: thread t takes the lock with its argument
AddResultEnter(t, o) ==
    LET result == TestResult(<<"test", Len(calls) + 1>>, t, o.status,
                             o.execution_time, Len(calls) + 1, o.endpoint,
                             o.method, o.response_code, o.error_message)
    IN  /\ Len(calls) < MaxIngest
        /\ caller_pc[t] = "idle"
        /\ lock_free(lock)
        /\ lock' = Some(t)
        /\ caller_item' = [caller_item EXCEPT ![t] = Some(result)]
        /\ calls' = Append(calls, result)
        /\ caller_pc' = [caller_pc EXCEPT ![t] = "load"]
        /\ UNCHANGED <<metrics, snapshot, caller_tmp, report_rest, log_vars,
                       json_vars, wrapper_vars, reader_vars,
                       client_vars>>

\* line 49, self.total_tests += 1: the read of the attribute
AddResultLoad(t) ==
    /\ caller_pc[t] = "load"
    /\ caller_tmp' = [caller_tmp EXCEPT ![t] = metrics.total_tests]
    /\ caller_pc' = [caller_pc EXCEPT ![t] = "store"]
    /\ UNCHANGED <<metrics, snapshot, lock, caller_item, calls, report_rest,
                   log_vars, json_vars, wrapper_vars, reader_vars,
                   client_vars>>

\* line 49, self.total_tests += 1: the write of the sum
AddResultStore(t) ==
    /\ caller_pc[t] = "store"
    /\ metrics' = [metrics EXCEPT !.total_tests = caller_tmp[t] + 1]
    /\ caller_pc' = [caller_pc EXCEPT ![t] = "time"]
    /\ UNCHANGED <<snapshot, lock, caller_item, caller_tmp, calls,
                   report_rest, log_vars, json_vars, wrapper_vars, reader_vars,
                   client_vars>>

\* line 50: self.total_execution_time += result.execution_time
AddResultTime(t) ==
    /\ caller_pc[t] = "time"
    /\ metrics' = [metrics EXCEPT !.total_execution_time =
                        @ + caller_item[t][1].execution_time]
    /\ caller_pc' = [caller_pc EXCEPT ![t] = "status"]
    /\ UNCHANGED <<snapshot, lock, caller_item, caller_tmp, calls,
                   report_rest, log_vars, json_vars, wrapper_vars, reader_vars,
                   client_vars>>

\* lines 52-57: the status branch
AddResultStatus(t) ==
    /\ caller_pc[t] = "status"
    /\ metrics' = CountStatus(metrics, caller_item[t][1])
    /\ caller_pc' = [caller_pc EXCEPT ![t] = "times"]
    /\ UNCHANGED <<snapshot, lock, caller_item, caller_tmp, calls,
                   report_rest, log_vars, json_vars, wrapper_vars, reader_vars,
                   client_vars>>

\* lines 59-62: the response time of the endpoint
AddResultTimes(t) ==
    /\ caller_pc[t] = "times"
    /\ metrics' = RecordTime(metrics, caller_item[t][1])
    /\ caller_pc' = [caller_pc EXCEPT ![t] = "codes"]
    /\ UNCHANGED <<snapshot, lock, caller_item, caller_tmp, calls,
                   report_rest, log_vars, json_vars, wrapper_vars, reader_vars,
                   client_vars>>

\* lines 64-67: the status code, then the lock is released
AddResultCodes(t) ==
    /\ caller_pc[t] = "codes"
    /\ metrics' = RecordCode(metrics, caller_item[t][1])
    /\ caller_pc' = [caller_pc EXCEPT ![t] = "idle"]
    /\ caller_item' = [caller_item EXCEPT ![t] = None]
    /\ lock' = None
    /\ UNCHANGED <<snapshot, caller_tmp, calls, report_rest, log_vars,
                   json_vars, wrapper_vars, reader_vars,
                   client_vars>>

\* get_metrics, lines 71-88: the whole body runs with the lock held
LockedGetMetrics ==
    /\ lock_free(lock)
    /\ GetMetrics

(***************************************************************************)
(* ReportGenerator.export_csv                                              *)
(***************************************************************************)
\* the fieldnames given to csv.DictWriter
CsvFieldnames ==
    <<"test_name", "test_class", "status", "execution_time", "timestamp",
      "endpoint", "method", "response_code", "error_message">>

\* datetime.isoformat()
IsoFormat(stamp) == <<"iso", stamp>>

\* row = asdict(result); row['timestamp'] = row['timestamp'].isoformat()
CsvRowDict(result) == [result EXCEPT !.timestamp = IsoFormat(@)]

\* DictWriter.writerow with the default extrasaction='raise': the keys of
\* the row that are no fieldnames
WrongFields(row) == DOMAIN row \ {CsvFieldnames[i] : i \in DOMAIN CsvFieldnames}

\* the line DictWriter writes for a row it accepts
CsvLine(row) == [i \in DOMAIN CsvFieldnames |-> row[CsvFieldnames[i]]]

\* os.makedirs, open(filepath, 'w') and writer.writeheader()
ExportCsvOpen ==
    /\ csv_pc = "idle"
    /\ Len(exports) < MaxExports
    /\ exports' = Append(exports, Len(results))
    /\ csv_file' = Some(<<CsvFieldnames>>)
    /\ csv_index' = 0
    /\ csv_return' = None
    /\ csv_pc' = "rows"
    /\ UNCHANGED <<report_queue, unfinished_tasks, stop_event, results,
                   metrics, worker_pc, worker_item, submitted, stopped_at,
                   ingests, last_call, snapshot, log_vars, aux_vars>>

\* one turn of "for result in self.results": writer.writerow(row), or the
\* end of the loop and "return filepath"
ExportCsvRow ==
    /\ csv_pc = "rows"
    /\ IF csv_index < Len(results)
       THEN LET row == CsvRowDict(results[csv_index + 1])
            IN  IF WrongFields(row) # {}
                THEN /\ csv_return' = Some("ValueError")
                     /\ csv_pc' = "idle"
                     /\ UNCHANGED <<csv_file, csv_index>>
                ELSE /\ csv_file' = Some(Append(csv_file[1], CsvLine(row)))
                     /\ csv_index' = csv_index + 1
                     /\ UNCHANGED <<csv_return, csv_pc>>
       ELSE /\ csv_return' = Some("filepath")
            /\ csv_pc' = "idle"
            /\ UNCHANGED <<csv_file, csv_index>>
    /\ UNCHANGED <<report_queue, unfinished_tasks, stop_event, results,
                   metrics, worker_pc, worker_item, submitted, stopped_at,
                   ingests, last_call, snapshot, exports, log_vars, aux_vars>>

(***************************************************************************)
(* ReportGenerator.export_json                                             *)
(***************************************************************************)
\* {**asdict(result), "timestamp": result.timestamp.isoformat()}
JsonRow(result) == [result EXCEPT !.timestamp = IsoFormat(@)]

\* a report that also carries the number of the export that wrote it
JsonDocumentNumbered(m, rows, live_codes, n) ==
    [metrics |-> [m EXCEPT !.status_code_distribution = live_codes],
     results |-> rows, export |-> n]

\* what json.dump(report) writes: the report dict holds the collector's own
\* status_codes dict, which is read when the document is written; the
\* number n of the export is no part of the document
JsonDocument(m, rows, live_codes, n) ==
    [metrics |-> [m EXCEPT !.status_code_distribution = live_codes],
     results |-> rows]

\* what export_json leaves alone in the ReportGenerator
json_rest ==
    <<report_queue, unfinished_tasks, stop_event, results, metrics, worker_pc,
      worker_item, submitted, stopped_at, ingests, last_call, snapshot,
      csv_pc, csv_index, csv_file, csv_return, exports>>

\* the worker has finished every outcome put so far
Quiet == report_queue = <<>> /\ worker_item = None

\* export_json, lines 169-173: the directory, then "metrics": get_metrics()
ExportJsonMetrics ==
    /\ json_pc = "idle"
    /\ Len(json_calls) < MaxJsonExports
    /\ json_metrics' = Some([report |-> get_metrics(metrics),
                             puts |-> Len(submitted), quiet |-> Quiet])
    /\ json_pc' = "results"
    /\ UNCHANGED <<json_results, json_file, json_calls, json_rest, log_vars,
                   lock_vars, wrapper_vars, reader_vars,
                   client_vars>>

\* lines 174-180: the list comprehension over self.results
ExportJsonResults ==
    /\ json_pc = "results"
    /\ json_results' = [i \in DOMAIN results |-> JsonRow(results[i])]
    /\ json_pc' = "dump"
    /\ UNCHANGED <<json_metrics, json_file, json_calls, json_rest, log_vars,
                   lock_vars, wrapper_vars, reader_vars,
                   client_vars>>

\* lines 183-186: json.dump into the file opened with 'w', return filepath
ExportJsonDump ==
    LET document == JsonDocument(json_metrics[1].report, json_results,
                                 metrics.status_codes, Len(json_calls) + 1)
    IN  /\ json_pc = "dump"
        /\ json_file' = Some(document)
        /\ json_calls' = Append(json_calls,
                                [document |-> document,
                                 puts_before |-> json_metrics[1].puts,
                                 quiet_before |-> json_metrics[1].quiet,
                                 puts_after |-> Len(submitted)])
        /\ json_metrics' = None
        /\ json_results' = <<>>
        /\ json_pc' = "idle"
        /\ UNCHANGED <<json_rest, log_vars, lock_vars, wrapper_vars,
                       reader_vars,
                       client_vars>>

(***************************************************************************)
(* assertions: the validators and the api_test wrapper                     *)
(***************************************************************************)
\* the JSON values of the bodies: two lists and two dicts, written as text
JsonValues == {"[]", "[1]", "{}", "{\"id\": 1}"}
JsonType(v) == IF v \in {"[]", "[1]"} THEN "list" ELSE "dict"
JsonEmpty(v) == v \in {"[]", "{}"}

\* Python truth value of an Optional dict or list: None and empty are false
TruthyContainer(c) == c # None /\ c[1] # <<>>

\* Python truth value of an Optional JSON dict or list
TruthyJson(c) == c # None /\ ~JsonEmpty(c[1])

\* "\n".join(messages)
RECURSIVE Join(_)
Join(messages) ==
    IF messages = <<>> THEN <<>>
    ELSE IF Len(messages) = 1 THEN messages[1]
    ELSE messages[1] \o <<"\n">> \o Join(Tail(messages))

\* validate_status_code: the message of its AssertionError, if it raises
validate_status_code(response, expected_code) ==
    IF response.status_code = expected_code
    THEN None
    ELSE Some(<<"Expected status code", ToString(expected_code), "got",
                ToString(response.status_code)>>)

\* jsonschema.validate for schemas made of the "type" keyword; a schema
\* dict is the sequence of its items
SchemaAccepts(instance, schema) ==
    \A i \in DOMAIN schema :
        schema[i][1] = "type" =>
            \/ schema[i][2] = "object" /\ JsonType(instance) = "dict"
            \/ schema[i][2] = "array" /\ JsonType(instance) = "list"

\* validate_json_schema; response.body is None when response.json() raises
validate_json_schema(response, schema) ==
    IF response.body = None
    THEN Some(<<"Response is not valid JSON">>)
    ELSE IF SchemaAccepts(response.body[1], schema)
         THEN None
         ELSE Some(<<"JSON schema validation failed", response.body[1],
                     "is not valid under the schema">>)

\* validate_headers: the loop raises at the first header that fails
RECURSIVE validate_headers(_, _)
validate_headers(response, expected_headers) ==
    IF expected_headers = <<>>
    THEN None
    ELSE LET header == Head(expected_headers)[1]
             value == Head(expected_headers)[2]
         IN  IF header \notin DOMAIN response.headers
             THEN Some(<<"Header", header, "not found in response">>)
             ELSE IF response.headers[header] # value
                  THEN Some(<<"Expected header", header, "to be", value,
                              "got", response.headers[header]>>)
                  ELSE validate_headers(response, Tail(expected_headers))

\* validate_json_content
validate_json_content(response, expected_content) ==
    IF response.body = None
    THEN Some(<<"Response is not valid JSON">>)
    ELSE IF response.body[1] = expected_content
         THEN None
         ELSE Some(<<"Expected content", expected_content, "got",
                     response.body[1]>>)

\* the responses a client may return: status, parsed body (None when
\* response.json() raises), response headers, headers of the request sent
Bodies == {None, Some("[1]"), Some("{\"id\": 1}")}

ResponseHeaders ==
    {[h \in {"Content-Type"} |-> "text/html"],
     [h \in {"Content-Type", "X-Request-Id"} |->
        IF h = "Content-Type" THEN "application/json" ELSE "abc"]}

Responses ==
    [status_code : {200, 404}, body : Bodies, headers : ResponseHeaders,
     request_headers : {[h \in {"Accept"} |-> "application/json"]}]

\* the arguments of the decorator api_test(endpoint, method, expected_status,
\* expected_schema, expected_headers, expected_content); a dict of expected
\* headers is the sequence of its items
Expectations ==
    [expected_status : {200},
     expected_schema : {None, Some(<<>>), Some(<< <<"type", "object">> >>)},
     expected_headers :
        {None, Some(<<>>),
         Some(<< <<"Content-Type", "application/json">>,
                 <<"X-Request-Id", "abc">> >>)},
     expected_content : {None, Some("[]"), Some("{\"id\": 1}")}]

\* one call of a wrapped test: whether self has a client, how the test body
\* ends, how the client's method ends, the response, the decorator arguments
Call(has_client, body, request, response, expect) ==
    [has_client |-> has_client, body |-> body, request |-> request,
     response |-> response, expect |-> expect]

Calls ==
    LET r0 == CHOOSE r \in Responses : r.status_code = 200
        e0 == CHOOSE e \in Expectations : e.expected_schema = None
    IN  {Call(FALSE, "returns", "response", r0, e0)}
        \cup {Call(TRUE, b, "response", r0, e0) :
                b \in {"AssertionError", "RuntimeError"}}
        \cup {Call(TRUE, "returns", q, r0, e0) :
                q \in {"TypeError", "RequestException"}}
        \cup {Call(TRUE, "returns", "response", r, e) :
                r \in Responses, e \in Expectations}

\* the wrapper's checks, lines 155-177: the messages appended to
\* validation_errors, in order
run_validations(response, expect) ==
    validate_status_code(response, expect.expected_status)
    \o (IF TruthyContainer(expect.expected_schema)
        THEN validate_json_schema(response, expect.expected_schema[1])
        ELSE <<>>)
    \o (IF TruthyContainer(expect.expected_headers)
        THEN validate_headers(response, expect.expected_headers[1])
        ELSE <<>>)
    \o (IF TruthyJson(expect.expected_content)
        THEN validate_json_content(response, expect.expected_content[1])
        ELSE <<>>)

\* an except clause that marks every exception as a fault
wrapper_except_any(result, e) ==
    [result EXCEPT !.status = "ERROR", !.error_message = Some(<<e>>)]

\* the wrapper's "except Exception as e", lines 187-191
wrapper_except(result, e) ==
    IF e # "AssertionError"
    THEN [result EXCEPT !.status = "ERROR", !.error_message = Some(<<e>>)]
    ELSE result

\* a wrapper that reports at the end of its try block, not in a finally
wrapper_return_only(exit, result, elapsed) ==
    [exit |-> exit,
     outcome |-> IF exit = "return"
                 THEN Some([result EXCEPT !.execution_time = elapsed])
                 ELSE None]

\* the wrapper's finally clause, lines 193-195, on every way out of the try
\* block: the execution time is set and the result handed to the reporter
wrapper_finally(exit, result, elapsed) ==
    [exit |-> exit,
     outcome |-> Some([result EXCEPT !.execution_time = elapsed])]

\* the wrapper of api_test, lines 123-195, called as test number n of class
\* t, taking elapsed from its start to its finally clause: how the call
\* ends and the TestResult its finally clause hands to the reporter
api_test(t, n, call, elapsed) ==
    LET fresh == TestResult(<<"test", n>>, t, "SUCCESS", 0, n, <<"/users">>,
                            <<"GET">>, None, None)
        response == call.response
        received ==
            [fresh EXCEPT !.response_code = Some(response.status_code),
                          !.request_headers = Some(response.request_headers),
                          !.response_headers = Some(response.headers)]
        errors == run_validations(response, call.expect)
        failed ==
            [received EXCEPT !.status = "FAILED",
                             !.error_message = Some(Join(errors)),
                             !.validation_errors = Some(errors)]
    IN  IF ~call.has_client
        THEN [exit |-> "ValueError", outcome |-> None]
        ELSE IF call.body # "returns"
        THEN wrapper_finally(call.body, wrapper_except(fresh, call.body),
                             elapsed)
        ELSE IF call.request # "response"
        THEN wrapper_finally(call.request,
                             wrapper_except(fresh, call.request), elapsed)
        ELSE IF errors # <<>>
        THEN wrapper_finally("AssertionError",
                             wrapper_except(failed, "AssertionError"),
                             elapsed)
        ELSE wrapper_finally("return", received, elapsed)

\* time.time() - start_time of a wrapped call, in tenths of a second
Elapsed == {15}

\* what a wrapped test leaves alone in the ReportGenerator
wrapper_rest ==
    <<stop_event, results, metrics, worker_pc, worker_item, stopped_at,
      ingests, last_call, snapshot, csv_pc, csv_index, csv_file, csv_return,
      exports>>

\* one call of a wrapped test of class t; the client is the object the test
\* class holds, its result is an input of the wrapper
ApiTest(t, call) ==
    LET n == Len(invocations) + 1
    IN  \E elapsed \in Elapsed :
        LET ended == api_test(t, n, call, elapsed)
        IN  /\ Len(invocations) < MaxCalls
            /\ invocations' = Append(invocations,
                                     [call |-> call, exit |-> ended.exit,
                                      outcome |-> ended.outcome,
                                      queue_before |-> report_queue])
            /\ IF ended.outcome # None
               THEN /\ put_enabled(report_queue)
                    /\ report_queue' = put(report_queue, ended.outcome[1])
                    /\ unfinished_tasks' = unfinished_tasks + 1
                    /\ submitted' = Append(submitted, ended.outcome[1])
               ELSE UNCHANGED <<report_queue, unfinished_tasks, submitted>>
            /\ UNCHANGED <<wrapper_rest, log_vars, lock_vars, json_vars,
                           reader_vars,
                           client_vars>>

(***************************************************************************)
(* APILogger                                                               *)
(***************************************************************************)
\* os.path.dirname: what precedes the last "/", "" when there is none
RECURSIVE Dirname(_)
Dirname(path) ==
    IF path = <<>> THEN <<>>
    ELSE IF path[Len(path)] = "/" THEN SubSeq(path, 1, Len(path) - 1)
    ELSE Dirname(SubSeq(path, 1, Len(path) - 1))

\* os.makedirs(name, exist_ok=True) raises FileNotFoundError for ""
makedirs_raises(name) == name = <<>>

\* _write_to_file with "except IOError: pass": the failure is not printed
write_to_file_silent(path, content, io_ok) ==
    IF makedirs_raises(Dirname(path))
    THEN [appended |-> <<>>, error |-> "FileNotFoundError", printed |-> <<>>]
    ELSE IF ~io_ok
         THEN [appended |-> <<>>, error |-> "IOError", printed |-> <<>>]
         ELSE [appended |-> <<content \o <<"\n">>>>, error |-> "",
               printed |-> <<>>]

\* _write_to_file(content): what is appended to the file, the IOError
\* caught (if any) and what is printed for it. io_ok is the environment:
\* whether open() and write() succeed.
write_to_file(path, content, io_ok) ==
    IF makedirs_raises(Dirname(path))
    THEN [appended |-> <<>>, error |-> "FileNotFoundError",
          printed |-> <<<<"Error writing to log file", "FileNotFoundError">>>>]
    ELSE IF ~io_ok
         THEN [appended |-> <<>>, error |-> "IOError",
               printed |-> <<<<"Error writing to log file", "IOError">>>>]
         ELSE [appended |-> <<content \o <<"\n">>>>, error |-> "",
               printed |-> <<>>]

\* the marker written in place of a sensitive value
Mask == "*****"

\* the header names of the model, and str.lower() of each
HeaderKeys ==
    {"Authorization", "AUTHORIZATION", "cookie", "Cookie", "X-API-Key",
     "Accept"}

Lower(key) ==
    CASE key \in {"Authorization", "AUTHORIZATION"} -> "authorization"
      [] key \in {"cookie", "Cookie"} -> "cookie"
      [] key = "X-API-Key" -> "x-api-key"
      [] key = "Accept" -> "accept"

\* a header filter that compares the key as it is written
is_sensitive_exact(key) == key \in {"authorization", "cookie", "x-api-key"}

\* key.lower() in {'authorization', 'cookie', 'x-api-key'}
is_sensitive(key) == Lower(key) \in {"authorization", "cookie", "x-api-key"}

\* _format_headers: one "key: value" line per item of the dict (a sequence
\* of <<key, value>>), joined by newlines
format_headers(headers) ==
    Join([i \in DOMAIN headers |->
            <<headers[i][1], ": ",
              IF is_sensitive(headers[i][1]) THEN Mask ELSE headers[i][2]>>])

\* bodies: a str, a dict (the sequence of its items) or a list
JStr(text) == <<"str", text>>
JObj(items) == <<"obj", items>>
JArr(elements) == <<"arr", elements>>

\* "not body": None, an empty str, dict or list are false
Falsy(body) ==
    \/ body = None
    \/ body[1] = "str" /\ body[2] = ""
    \/ body[1] # "str" /\ body[2] = <<>>

\* json.dumps(value) and str(text), as the tokens of the text written
RECURSIVE Dumps(_)
RECURSIVE DumpItems(_)
RECURSIVE DumpList(_)
Dumps(value) ==
    IF value[1] = "str" THEN <<value[2]>>
    ELSE IF value[1] = "obj"
         THEN <<"{">> \o DumpItems(value[2]) \o <<"}">>
         ELSE <<"[">> \o DumpList(value[2]) \o <<"]">>

DumpItems(items) ==
    IF items = <<>> THEN <<>>
    ELSE <<Head(items)[1], ": ">> \o Dumps(Head(items)[2])
         \o (IF Len(items) > 1 THEN <<", ">> ELSE <<>>)
         \o DumpItems(Tail(items))

DumpList(elements) ==
    IF elements = <<>> THEN <<>>
    ELSE Dumps(Head(elements))
         \o (IF Len(elements) > 1 THEN <<", ">> ELSE <<>>)
         \o DumpList(Tail(elements))

\* the loop over ['password', 'token', 'api_key'] on the copy of a dict:
\* the value of each such key of the dict itself is replaced
mask_fields(items) ==
    [i \in DOMAIN items |->
        IF items[i][1] \in {"password", "token", "api_key"}
        THEN <<items[i][1], JStr(Mask)>>
        ELSE items[i]]

\* _format_body: the text logged for a body, and the caller's object as the
\* call leaves it (the dict is copied before it is changed)
format_body(body) ==
    [text |-> IF Falsy(body) THEN <<>>
              ELSE IF body[1] = "obj" THEN Dumps(JObj(mask_fields(body[2])))
              ELSE Dumps(body),
     caller_body |-> body]

\* log_request / log_response: the formatted entry is put on the queue; the
\* entry is its first line, the header lines and the body line
LogEnqueue(p, kind, headers, body) ==
    LET entry == <<kind, p, Len(logged) + 1,
                   IF headers # None /\ headers[1] # <<>>
                   THEN format_headers(headers[1]) \o <<"\n">> ELSE <<>>,
                   IF ~Falsy(body)
                   THEN <<"Body: ">> \o format_body(body).text \o <<"\n">>
                   ELSE <<>> >>
    IN  /\ put_enabled(log_queue)
        /\ log_queue' = put(log_queue, entry)
        /\ log_unfinished' = log_unfinished + 1
        /\ logged' = Append(logged, entry)
        /\ log_args' = Append(log_args,
                              [headers |-> headers, body |-> body,
                               body_after |-> format_body(body).caller_body])
        /\ UNCHANGED <<log_file, log_stop, writer_pc, writer_item, log_text,
                       stdout, log_stopped_at, attempts>>

\* a test thread calls the logger: the session logs at most MaxLogged entries
LogPut(p, kind, headers, body) ==
    /\ Len(logged) < MaxLogged
    /\ LogEnqueue(p, kind, headers, body)
    /\ UNCHANGED <<report_vars, aux_vars>>

log_request(p, headers, body) == LogPut(p, "REQUEST", headers, body)

log_response(p, headers, body) == LogPut(p, "RESPONSE", headers, body)

\* the header maps a client passes: none, the empty dict, one header, two
\* headers; the value of a header of authorization, cookie or x-api-key (in
\* any casing) is "secret"
HeaderMaps ==
    {None, Some(<<>>)}
    \cup {Some(<< <<k, IF k = "Accept" THEN "application/json"
                        ELSE "secret">> >>) : k \in HeaderKeys}
    \cup {Some(<< <<"Accept", "application/json">>, <<k, "secret">> >>) :
            k \in {"Authorization", "cookie"}}

\* the bodies a client passes: none, an empty dict, a dict with a password,
\* a dict holding a dict with a token, a list of dicts with an api_key, a
\* str; the value of each such field is "hunter2"
BodyNames == {"none", "empty", "flat", "nested", "list", "text"}

Body(name) ==
    CASE name = "none" -> None
      [] name = "empty" -> JObj(<<>>)
      [] name = "flat" ->
            JObj(<< <<"username", JStr("bob")>>,
                    <<"password", JStr("hunter2")>> >>)
      [] name = "nested" ->
            JObj(<< <<"user", JObj(<< <<"name", JStr("bob")>>,
                                      <<"token", JStr("hunter2")>> >>)>> >>)
      [] name = "list" ->
            JArr(<< JObj(<< <<"api_key", JStr("hunter2")>> >>) >>)
      [] name = "text" -> JStr("plain text")

\* a loop test that leaves as soon as the stop event is set
writer_continues_until_stop(stop, q) == ~stop

\* the loop test of _log_writer:
\*   while not self._stop_event.is_set() or not self._log_queue.empty()
writer_continues(stop, q) == ~stop \/ q # <<>>

WriterLoop ==
    /\ writer_pc = "loop"
    /\ writer_pc' = IF writer_continues(log_stop, log_queue)
                    THEN "get" ELSE "done"
    /\ UNCHANGED <<log_file, log_queue, log_unfinished, log_stop,
                   writer_item, log_text, stdout, logged, log_stopped_at,
                   attempts, log_args, report_vars, aux_vars>>

\* self._log_queue.get(timeout=1.0) returns the head of the queue
WriterGet ==
    /\ writer_pc = "get"
    /\ log_queue # <<>>
    /\ writer_item' = Some(get_item(log_queue))
    /\ log_queue' = get_rest(log_queue)
    /\ writer_pc' = "write"
    /\ UNCHANGED <<log_file, log_unfinished, log_stop, log_text, stdout,
                   logged, log_stopped_at, attempts, log_args,
                   report_vars, aux_vars>>

\* self._log_queue.get(timeout=1.0) raises Empty; "except Exception: continue"
WriterTimeout ==
    /\ writer_pc = "get"
    /\ log_queue = <<>>
    /\ writer_pc' = "loop"
    /\ UNCHANGED <<log_file, log_queue, log_unfinished, log_stop,
                   writer_item, log_text, stdout, logged, log_stopped_at,
                   attempts, log_args, report_vars, aux_vars>>

\* self._write_to_file(log_entry)
WriterWrite ==
    /\ writer_pc = "write"
    /\ \E io_ok \in BOOLEAN :
        LET out == write_to_file(log_file, writer_item[1], io_ok)
        IN  /\ log_text' = log_text \o out.appended
            /\ stdout' = stdout \o out.printed
            /\ attempts' = Append(attempts,
                                  [entry |-> writer_item[1], error |-> out.error])
    /\ writer_pc' = "task_done"
    /\ UNCHANGED <<log_file, log_queue, log_unfinished, log_stop,
                   writer_item, logged, log_stopped_at, log_args,
                   report_vars, aux_vars>>

\* self._log_queue.task_done(), then back to the loop test
WriterTaskDone ==
    /\ writer_pc = "task_done"
    /\ log_unfinished' = log_unfinished - 1
    /\ writer_item' = None
    /\ writer_pc' = "loop"
    /\ UNCHANGED <<log_file, log_queue, log_stop, log_text, stdout, logged,
                   log_stopped_at, attempts, log_args, report_vars, aux_vars>>

\* APILogger.__del__ sets the stop event (and then joins the writer)
SetLogStop ==
    /\ ~log_stop
    /\ log_stop' = TRUE
    /\ log_stopped_at' = Some(Len(logged))
    /\ UNCHANGED <<log_file, log_queue, log_unfinished, writer_pc,
                   writer_item, log_text, stdout, logged, attempts,
                   log_args, report_vars, aux_vars>>

(***************************************************************************)
(* APIClient._make_request: one thread, whose call is a sequence of steps   *)
(* (log the request, send it, log the response or handle the exception);    *)
(* the recursive call of the except block is the next round of the same     *)
(* steps with retry_count + 1.                                              *)
(***************************************************************************)
\* how session.request ends: with a response whose content is JSON, with a
\* response without content, with a response whose content is not JSON, or
\* by raising a RequestException
SessionOutcomes == {"json", "empty", "not json", "RequestException"}

\* response.json() of a content that is not JSON raises
\* requests.exceptions.JSONDecodeError, a RequestException since requests
\* 2.27, and a plain ValueError before: the installed version decides
JsonErrors == {"RequestException", "ValueError"}

\* the values of the retry_attempts setting
RetryBudgets == {0, 1, RetryAttemptsDefault}

\* the headers of a request, which the response carries too, and the body
\* of a response
RequestHeaders == << <<"Accept", "application/json">> >>

ResponseBody(outcome) ==
    IF outcome = "json" THEN JObj(<< <<"id", JStr("1")>> >>) ELSE None

ClientThread == "TestA"

\* the call is entered with retry_count = 0
MakeRequestStart(budget, flavour) ==
    /\ rq_pc = "idle"
    /\ Len(rq_history) < MaxRequests
    /\ rq_pc' = "log"
    /\ retry_count' = 0
    /\ retry_attempts' = budget
    /\ json_error' = flavour
    /\ rq_tries' = <<>>
    /\ rq_slept' = <<>>
    /\ rq_result' = None
    /\ UNCHANGED <<rq_history, report_vars, log_vars, lock_vars, json_vars,
                   wrapper_vars, reader_vars>>

\* self.logger.log_request(method, url, request_headers, json_data or data)
MakeRequestLog ==
    /\ rq_pc = "log"
    /\ LogEnqueue(ClientThread, "REQUEST", Some(RequestHeaders), None)
    /\ rq_pc' = "send"
    /\ UNCHANGED <<retry_count, retry_attempts, json_error, rq_tries,
                   rq_slept, rq_result, rq_history, report_vars, lock_vars,
                   json_vars, wrapper_vars, reader_vars>>

\* response = self.session.request(...)
SessionRequest(outcome) ==
    /\ rq_pc = "send"
    /\ rq_tries' = Append(rq_tries, outcome)
    /\ rq_pc' = IF outcome = "RequestException" THEN "except" ELSE "respond"
    /\ UNCHANGED <<retry_count, retry_attempts, json_error, rq_slept,
                   rq_result, rq_history, report_vars, log_vars, lock_vars,
                   json_vars, wrapper_vars, reader_vars>>

\* the call ends: its result and its history are kept
Ended(result) ==
    /\ rq_pc' = "idle"
    /\ rq_result' = Some(result)
    /\ rq_history' = Append(rq_history,
                            [tries |-> rq_tries, slept |-> rq_slept,
                             budget |-> retry_attempts, result |-> result])

\* still inside the try block: the arguments of log_response are evaluated,
\* response.json() among them, the response is logged and returned
MakeRequestRespond ==
    /\ rq_pc = "respond"
    /\ IF rq_tries[Len(rq_tries)] # "not json"
       THEN /\ LogEnqueue(ClientThread, "RESPONSE", Some(RequestHeaders),
                          ResponseBody(rq_tries[Len(rq_tries)]))
            /\ Ended(<<"returned", "response">>)
       ELSE /\ IF json_error = "RequestException"
               THEN /\ rq_pc' = "except"
                    /\ UNCHANGED <<rq_result, rq_history>>
               ELSE Ended(<<"raised", "ValueError">>)
            /\ UNCHANGED log_vars
    /\ UNCHANGED <<retry_count, retry_attempts, json_error, rq_tries,
                   rq_slept, report_vars, lock_vars, json_vars,
                   wrapper_vars, reader_vars>>

\* the exception the except block holds: the one of session.request or the
\* one of response.json()
Caught ==
    IF rq_tries[Len(rq_tries)] = "RequestException"
    THEN "RequestException" ELSE "JSONDecodeError"

\* except RequestException: sleep and call again while retry_count is below
\* retry_attempts, else raise
MakeRequestExcept ==
    /\ rq_pc = "except"
    /\ IF retry_count < retry_attempts
       THEN /\ rq_slept' = Append(rq_slept, RetryDelayDefault)
            /\ retry_count' = retry_count + 1
            /\ rq_pc' = "log"
            /\ UNCHANGED <<rq_result, rq_history>>
       ELSE /\ Ended(<<"raised", Caught>>)
            /\ UNCHANGED <<rq_slept, retry_count>>
    /\ UNCHANGED <<retry_attempts, json_error, rq_tries, report_vars,
                   log_vars, lock_vars, json_vars, wrapper_vars,
                   reader_vars>>

(***************************************************************************)
(* Specifications                                                          *)
(***************************************************************************)
\* the paths of the reporting specifications keep the default log file
InitReport == Init /\ log_file = DefaultLogFile

\* _process_queue, the background worker of the ReportGenerator
NextWorker ==
    \/ WorkerLoop
    \/ WorkerGet
    \/ WorkerTimeout
    \/ WorkerAppend
    \/ WorkerIngest
    \/ WorkerTaskDone

\* _log_writer, the background writer of the APILogger
NextWriter ==
    \/ WriterLoop
    \/ WriterGet
    \/ WriterTimeout
    \/ WriterWrite
    \/ WriterTaskDone

\* the reporting pipeline: test threads, the worker, shutdown
NextReport ==
    \/ \E p \in Producers, o \in PipelineOutcomes : Submit(p, o)
    \/ NextWorker
    \/ SetStop

SpecReport == InitReport /\ [][NextReport]_vars

\* the reporting pipeline with export_csv calls running beside it
NextExport ==
    \/ NextReport
    \/ ExportCsvOpen
    \/ ExportCsvRow

SpecExport == InitReport /\ [][NextExport]_vars

\* the logging pipeline: client threads, the writer, shutdown
NextLog ==
    \/ \E p \in Producers : log_request(p, None, None)
    \/ \E p \in Producers : log_response(p, None, None)
    \/ NextWriter
    \/ SetLogStop

SpecLog == Init /\ [][NextLog]_vars

\* the MetricsCollector alone, driven by direct calls
NextMetrics ==
    \/ \E o \in AnyOutcome : Ingest(o)
    \/ GetMetrics

SpecMetrics == InitReport /\ [][NextMetrics]_vars

\* the collector, callers of get_metrics and a reader of what it returned
NextAlias ==
    \/ \E o \in PipelineOutcomes : Ingest(o)
    \/ GetMetrics
    \/ \E code \in {200, 404} : ReaderWrites(code)

SpecAlias == InitReport /\ [][NextAlias]_vars

\* threads calling add_result and get_metrics of one collector
NextLock ==
    \/ \E t \in Producers, o \in PipelineOutcomes : AddResultEnter(t, o)
    \/ \E t \in Producers : AddResultLoad(t)
    \/ \E t \in Producers : AddResultStore(t)
    \/ \E t \in Producers : AddResultTime(t)
    \/ \E t \in Producers : AddResultStatus(t)
    \/ \E t \in Producers : AddResultTimes(t)
    \/ \E t \in Producers : AddResultCodes(t)
    \/ LockedGetMetrics

SpecLock == InitReport /\ [][NextLock]_vars

\* the reporting pipeline of one test thread with export_json calls
NextJson ==
    \/ /\ Len(submitted) < MaxJsonPuts
       /\ \E p \in {"TestA"} : Submit(p, PlannedOutcome(Len(submitted) + 1))
    \/ NextWorker
    \/ ExportJsonMetrics
    \/ ExportJsonResults
    \/ ExportJsonDump

SpecJson == InitReport /\ [][NextJson]_vars

\* the wrapped tests of one test class, called one after the other
NextWrapper ==
    \E t \in {"TestA"}, call \in Calls : ApiTest(t, call)

SpecWrapper == InitReport /\ [][NextWrapper]_vars

\* the logging pipeline of one client that passes headers and bodies
InitMask == Init /\ log_file # DefaultLogFile

NextMask ==
    \/ /\ Len(logged) < MaxMasked
       /\ \/ \E h \in HeaderMaps : log_request("TestA", h, None)
          \/ \E h \in HeaderMaps : log_response("TestA", h, None)
          \/ \E b \in BodyNames : log_request("TestA", None, Body(b))
          \/ \E b \in BodyNames : log_response("TestA", None, Body(b))
    \/ NextWriter

SpecMask == InitMask /\ [][NextMask]_vars

\* both pipelines and their shutdowns. The worker and the writer are threads
\* started in __init__: whenever one of them can take a step the scheduler
\* lets it take one (a get on an empty queue returns after its timeout), so
\* each is weakly fair; the producers and the callers of __del__ are not
NextShutdown ==
    \/ /\ Len(submitted) + Len(logged) < MaxShutdownPuts
       /\ \/ \E p \in Producers : Submit(p, PlannedOutcome(Len(submitted) + 1))
          \/ \E p \in Producers : log_request(p, None, None)
    \/ NextWorker
    \/ NextWriter
    \/ SetStop
    \/ SetLogStop

SpecShutdown ==
    /\ Init
    /\ [][NextShutdown]_vars
    /\ WF_vars(NextWorker)
    /\ WF_vars(NextWriter)

\* the reporting pipeline of one test thread with every reader of the
\* generator beside it: export_csv, export_json and get_metrics
NextReaders ==
    \/ /\ Len(submitted) < MaxReaderPuts
       /\ \E p \in {"TestA"} : Submit(p, PlannedOutcome(Len(submitted) + 1))
    \/ NextWorker
    \/ Len(exports) < MaxReaderExports /\ ExportCsvOpen
    \/ ExportCsvRow
    \/ Len(json_calls) < MaxReaderExports /\ ExportJsonMetrics
    \/ ExportJsonResults
    \/ ExportJsonDump
    \/ GetMetrics

SpecReaders == InitReport /\ [][NextReaders]_vars

\* the reporting pipeline of one test thread that also passes objects that
\* are no TestResult
NextObjects ==
    \/ /\ Len(submitted) < MaxObjectPuts
       /\ \/ \E p \in {"TestA"} : Submit(p, PlannedOutcome(Len(submitted) + 1))
          \/ \E p \in {"TestA"} : SubmitObject(p)
    \/ NextWorker

SpecObjects == InitReport /\ [][NextObjects]_vars

\* one thread calling APIClient._make_request
NextClient ==
    \/ \E budget \in RetryBudgets, flavour \in JsonErrors :
            MakeRequestStart(budget, flavour)
    \/ MakeRequestLog
    \/ \E outcome \in SessionOutcomes : SessionRequest(outcome)
    \/ MakeRequestRespond
    \/ MakeRequestExcept

SpecClient == InitReport /\ [][NextClient]_vars

\* both pipelines side by side: a test session of at most MaxPuts puts
NextQueues ==
    \/ /\ Len(submitted) + Len(logged) < MaxPuts
       /\ \/ \E p \in Producers : Submit(p, PlannedOutcome(Len(submitted) + 1))
          \/ \E p \in Producers : log_request(p, None, None)
          \/ \E p \in Producers : log_response(p, None, None)
    \/ NextWorker
    \/ NextWriter

Spec == Init /\ [][NextQueues]_vars


(***************************************************************************)
(* Properties                                                              *)
(***************************************************************************)
Range(f) == {f[i] : i \in DOMAIN f}

\* the outcome the worker has taken from the queue and not yet appended
WorkerHolds == IF worker_pc = "append" THEN worker_item ELSE <<>>

\* the entry the writer has taken from the queue and not yet written
WriterHolds == IF writer_pc = "write" THEN writer_item ELSE <<>>

\* the worker has taken every outcome put so far and finished with it
Drained == report_queue = <<>> /\ worker_item = None

\* the collector after ingesting the outcomes of a sequence, in order
RECURSIVE IngestAll(_)
IngestAll(rs) ==
    IF rs = <<>> THEN MetricsInit
    ELSE add_result(IngestAll(SubSeq(rs, 1, Len(rs) - 1)), rs[Len(rs)])

\* C1: whenever the worker has drained the queue after N outcomes were
\* passed to ReportGenerator.add_result, get_metrics() reports
\* total_tests = N and passed_tests + failed_tests + error_tests = N, and
\* the results history is exactly those N outcomes.
C1_DrainedCountsEveryOutcome ==
    Drained =>
        LET report == get_metrics(metrics)
        IN  /\ report.total_tests = Len(submitted)
            /\ report.passed_tests + report.failed_tests + report.error_tests
                  = Len(submitted)
            /\ results = submitted

\* three outcomes of the three statuses, from both threads, all processed
C1_Witness ==
    /\ Drained
    /\ Len(submitted) = 3
    /\ {results[i].status : i \in DOMAIN results} = Statuses
    /\ {results[i].test_class : i \in DOMAIN results} = Producers

\* C2: when the worker loop has exited, every outcome whose add_result call
\* completed before the stop event was set is in the results history, in
\* the order of the calls, and the metrics count every outcome of the
\* history.
C2_ShutdownDrains ==
    worker_pc = "done" =>
        /\ stopped_at # None
        /\ Len(results) >= stopped_at[1]
        /\ SubSeq(results, 1, stopped_at[1]) = SubSeq(submitted, 1, stopped_at[1])
        /\ metrics = IngestAll(results)
        /\ metrics.total_tests >= stopped_at[1]

\* the stop event was set after two puts and the worker has exited
C2_Witness ==
    /\ worker_pc = "done"
    /\ stopped_at # None
    /\ stopped_at[1] >= 2
    /\ Len(results) >= 2


\* the text _write_to_file appends for an entry
Line(entry) == entry \o <<"\n">>

\* the environment let every open() and write() of the writer succeed
NoIOFailure == \A i \in DOMAIN attempts : attempts[i].error # "IOError"

\* C3: if K entries are put on the log queue and the stop event is set
\* right after them, then when the writer has terminated (no write having
\* met an I/O failure of the environment) the log file holds exactly those
\* K entries, each once, in order.
C3_LogShutdownWritesAll ==
    (/\ writer_pc = "done"
     /\ log_stopped_at = Some(Len(logged))
     /\ NoIOFailure)
    => log_text = [i \in DOMAIN logged |-> Line(logged[i])]

\* C4: an export_csv call that started on a non-empty results history
\* returns the file path, and the file holds the header row followed by one
\* row per outcome of the history, in history order.
C4_ExportCsvWritesRows ==
    (/\ csv_pc = "idle"
     /\ csv_return # None
     /\ exports[Len(exports)] > 0)
    => /\ csv_return = Some("filepath")
       /\ csv_file[1][1] = CsvFieldnames
       /\ csv_index >= exports[Len(exports)]
       /\ Len(csv_file[1]) = 1 + csv_index
       /\ \A i \in 1..csv_index :
            csv_file[1][i + 1] = CsvLine(CsvRowDict(results[i]))

\* C5: for every configured log_file, the default bare file name included,
\* each entry the writer has passed to _write_to_file (its open() and
\* write() not failing) is in the log file, newline-terminated.
C5_EveryEntryIsAppended ==
    \A i \in DOMAIN attempts :
        attempts[i].error # "IOError" => Line(attempts[i].entry) \in Range(log_text)

\* the entries of the attempts that ended with (ok) or without a line
RECURSIVE Written(_)
Written(as) ==
    IF as = <<>> THEN <<>>
    ELSE IF as[1].error = ""
         THEN <<Line(as[1].entry)>> \o Written(Tail(as))
         ELSE Written(Tail(as))

RECURSIVE Reported(_)
Reported(as) ==
    IF as = <<>> THEN <<>>
    ELSE IF as[1].error # ""
         THEN <<<<"Error writing to log file", as[1].error>>>> \o Reported(Tail(as))
         ELSE Reported(Tail(as))

\* the state part of C6
C6_State ==
    \* the entries put are those written or reported, the one in the
    \* writer's hands and those waiting, in the order of the puts
    /\ logged = [i \in DOMAIN attempts |-> attempts[i].entry]
                    \o WriterHolds \o log_queue
    \* a failed write is printed, and only its own entry is missing
    /\ stdout = Reported(attempts)
    /\ log_text = Written(attempts)
    /\ writer_pc = "done" => log_stop

\* the step part of C6: the writer leaves its loop only when the stop
\* event is set and the queue is empty
C6_Step ==
    (writer_pc # "done" /\ writer_pc' = "done") =>
        (log_stop /\ log_queue = <<>> /\ writer_pc = "loop")

\* C6: a failed write is printed and does not stop the writer: every entry
\* put is passed to _write_to_file in turn, each failed write has its line
\* on stdout and costs only its own entry, and the writer leaves its loop
\* only when the stop event is set and the queue is empty.
C6_FailedWriteDoesNotStopWriter == [](C6_State) /\ [][C6_Step]_vars

\* a write failed, and a later entry was written to the file
C6_Witness ==
    \E i, j \in DOMAIN attempts :
        /\ i < j
        /\ attempts[i].error = "IOError"
        /\ attempts[j].error = ""
        /\ Line(attempts[j].entry) \in Range(log_text)
        /\ Len(stdout) = 1


\* the outcomes (entries) of a sequence that thread p made, in the
\* sequence's order
OutcomesOf(seq, p) == SelectSeq(seq, LAMBDA r : r.test_class = p)
EntriesOf(seq, p) == SelectSeq(seq, LAMBDA e : e[2] = p)

IsPrefix(a, b) == Len(a) <= Len(b) /\ a = SubSeq(b, 1, Len(a))

Attempted == [i \in DOMAIN attempts |-> attempts[i].entry]

\* C7: each queue is FIFO. The results history, the outcome in the
\* worker's hands and the waiting outcomes are, in this order, the outcomes
\* in the order of their puts; the entries passed to _write_to_file, the
\* one in the writer's hands and the waiting ones are the entries in the
\* order of their puts, and the lines of the log file are in that order
\* too. So for each thread its own items keep their relative order.
C7_QueuesAreFifo ==
    /\ results \o WorkerHolds \o report_queue = submitted
    /\ Attempted \o WriterHolds \o log_queue = logged
    /\ log_text = Written(attempts)
    /\ \A p \in Producers :
          /\ IsPrefix(OutcomesOf(results, p), OutcomesOf(submitted, p))
          /\ IsPrefix(EntriesOf(Attempted, p), EntriesOf(logged, p))

\* two outcomes of different threads in the history and two lines of
\* different threads in the log file
C7_Witness ==
    /\ Len(results) = 2
    /\ results[1].test_class # results[2].test_class
    /\ Len(log_text) = 2
    /\ log_text[1][2] # log_text[2][2]

\* how many times an item occurs in a sequence
Occurrences(seq, x) == Cardinality({i \in DOMAIN seq : seq[i] = x})

\* C8: a put is always enabled for every thread that still has something
\* to put, whatever the worker, the writer and the other threads are
\* doing and however many items wait; and every outcome put is exactly
\* once in the history, the worker's hands or the queue (every entry put:
\* exactly once among the write attempts, the writer's hands or the
\* queue).
C8_PutNeverBlocks ==
    /\ \A p \in Producers :
          Len(submitted) + Len(logged) < MaxPuts =>
              /\ Len(submitted) < MaxSubmit =>
                    \A o \in PipelineOutcomes : ENABLED Submit(p, o)
              /\ Len(logged) < MaxLogged =>
                    /\ ENABLED log_request(p, None, None)
                       /\ ENABLED log_response(p, None, None)
    /\ \A i \in DOMAIN submitted :
          Occurrences(results \o WorkerHolds \o report_queue, submitted[i]) = 1
    /\ \A i \in DOMAIN logged :
          Occurrences(Attempted \o WriterHolds \o log_queue, logged[i]) = 1

\* items wait on both queues, of both threads, and more puts are to come
C8_Witness ==
    /\ Len(report_queue) = 2
    /\ report_queue[1].test_class # report_queue[2].test_class
    /\ Len(log_queue) = 1
    /\ Len(submitted) + Len(logged) < MaxPuts
    /\ \A p \in Producers : ENABLED Submit(p, PlannedOutcome(3))


\* a dict after one of its buckets was set, the others being untouched
OnlyBucketChanged(before, after, key, value) ==
    /\ DOMAIN after = DOMAIN before \cup {key}
    /\ after[key] = value
    /\ \A k \in DOMAIN before : k # key => after[k] = before[k]

\* C9: one MetricsCollector.add_result call adds 1 to total_tests, adds 1
\* to exactly one of passed_tests, failed_tests, error_tests as the status
\* is SUCCESS, FAILED, ERROR, appends execution_time to the list of the key
\* "METHOD endpoint" (a new list on first use), and adds 1 to the bucket of
\* response_code whenever response_code is not None, for every integer
\* code; the histogram is unchanged only when response_code is None.
C9_AddResultUpdatesEveryCounter ==
    last_call # None =>
        LET before == last_call[1][1]
            result == last_call[1][2]
            key == result.method \o <<" ">> \o result.endpoint
            delta(status) == IF result.status = status THEN 1 ELSE 0
        IN  /\ metrics.total_tests = before.total_tests + 1
            /\ metrics.passed_tests = before.passed_tests + delta("SUCCESS")
            /\ metrics.failed_tests = before.failed_tests + delta("FAILED")
            /\ metrics.error_tests = before.error_tests + delta("ERROR")
            /\ metrics.total_execution_time
                  = before.total_execution_time + result.execution_time
            /\ OnlyBucketChanged(before.response_times, metrics.response_times,
                  key,
                  Append(IF key \in DOMAIN before.response_times
                         THEN before.response_times[key] ELSE <<>>,
                         result.execution_time))
            /\ IF result.response_code # None
               THEN OnlyBucketChanged(before.status_codes, metrics.status_codes,
                       result.response_code[1],
                       IF result.response_code[1] \in DOMAIN before.status_codes
                       THEN before.status_codes[result.response_code[1]] + 1
                       ELSE 1)
               ELSE metrics.status_codes = before.status_codes

\* C10: get_metrics() returns success_rate 0 whenever total_tests is 0, and
\* otherwise the quotient passed_tests / total_tests times 100.
C10_SuccessRate ==
    snapshot # None =>
        LET report == snapshot[1]
            rate == report.success_rate
        IN  /\ rate[2] > 0
            /\ report.total_tests = 0 => rate[1] = 0
            /\ report.total_tests > 0 =>
                  rate[1] * report.total_tests
                      = report.passed_tests * 100 * rate[2]

\* a report taken before the first ingest, read after two ingests: its
\* success_rate is 0 and was computed with total_tests = 0
C10_WitnessZero ==
    /\ snapshot # None
    /\ snapshot[1].total_tests = 0
    /\ snapshot[1].success_rate = <<0, 1>>
    /\ metrics.total_tests = 2

\* a report of one passed test out of two: success_rate is 50
C10_Witness ==
    /\ snapshot # None
    /\ snapshot[1].total_tests = 2
    /\ snapshot[1].passed_tests = 1
    /\ snapshot[1].success_rate = <<50, 1>>

C12_ExportJsonTwiceSame ==
    \A i \in DOMAIN json_calls :
        (/\ i + 1 \in DOMAIN json_calls
         /\ json_calls[i].puts_before = json_calls[i + 1].puts_after)
        => json_calls[i].document = json_calls[i + 1].document

\* C12, amended: the same, for a first call made when the worker had
\* finished every outcome put before it
C12_ExportJsonTwiceSameWhenQuiet ==
    \A i \in DOMAIN json_calls :
        (/\ i + 1 \in DOMAIN json_calls
         /\ json_calls[i].puts_before = json_calls[i + 1].puts_after
         /\ json_calls[i].quiet_before)
        => json_calls[i].document = json_calls[i + 1].document

\* two exports of a history of two outcomes, none put since the first began
C12_Witness ==
    /\ Len(json_calls) = 2
    /\ json_calls[1].quiet_before
    /\ json_calls[1].puts_before = 2
    /\ json_calls[2].puts_after = 2
    /\ Len(json_calls[2].document.results) = 2


\* the wrapper received a response: it has a client, the test body returned
\* its parameters and the client returned
Received(inv) ==
    /\ inv.call.has_client
    /\ inv.call.body = "returns"
    /\ inv.call.request = "response"

\* the message of every check the decorator configures (status always, the
\* others when their argument is given) that the response fails, in order
ConfiguredFailures(response, expect) ==
    validate_status_code(response, expect.expected_status)
    \o (IF expect.expected_schema # None
        THEN validate_json_schema(response, expect.expected_schema[1])
        ELSE <<>>)
    \o (IF expect.expected_headers # None
        THEN validate_headers(response, expect.expected_headers[1])
        ELSE <<>>)
    \o (IF expect.expected_content # None
        THEN validate_json_content(response, expect.expected_content[1])
        ELSE <<>>)

\* C13: once a response is received every configured check is evaluated:
\* if any fails the outcome is FAILED and validation_errors holds the message
\* of each failed check, in check order
C13_EveryConfiguredCheckIsEvaluated ==
    \A i \in DOMAIN invocations :
        Received(invocations[i]) =>
            LET failures == ConfiguredFailures(invocations[i].call.response,
                                               invocations[i].call.expect)
                outcome == invocations[i].outcome[1]
            IN  failures # <<>> =>
                    /\ outcome.status = "FAILED"
                    /\ outcome.validation_errors = Some(failures)

\* C14: in every outcome a wrapper emits, FAILED comes with a non-empty
\* validation_errors; ERROR comes only from an exception that is no
\* AssertionError, with its message as error_message and no
\* validation_errors; SUCCESS comes with no error_message; and a record with
\* validation_errors has no other error_message than their join
C14_OutcomeInvariants ==
    \A i \in DOMAIN invocations :
        invocations[i].outcome # None =>
            LET outcome == invocations[i].outcome[1]
                exit == invocations[i].exit
            IN  /\ outcome.status \in Statuses
                /\ outcome.status = "FAILED" =>
                      /\ outcome.validation_errors # None
                      /\ outcome.validation_errors[1] # <<>>
                /\ outcome.status = "ERROR" =>
                      /\ exit \notin {"return", "AssertionError"}
                      /\ outcome.error_message = Some(<<exit>>)
                      /\ outcome.validation_errors = None
                /\ outcome.status = "SUCCESS" =>
                      outcome.error_message = None
                /\ outcome.validation_errors # None =>
                      /\ outcome.status = "FAILED"
                      /\ outcome.error_message =
                            Some(Join(outcome.validation_errors[1]))

\* a FAILED outcome with two validation messages: 404 for 200, and a body
\* the schema rejects
C14_Witness ==
    \E i \in DOMAIN invocations :
        /\ invocations[i].outcome # None
        /\ invocations[i].outcome[1].status = "FAILED"
        /\ invocations[i].outcome[1].response_code = Some(404)
        /\ Len(invocations[i].outcome[1].validation_errors[1]) = 2

\* the outcomes of the calls made on an object with a client, in call order
Emitted ==
    LET with_client == SelectSeq(invocations, LAMBDA v : v.call.has_client)
    IN  [i \in DOMAIN with_client |-> with_client[i].outcome[1]]

\* C20: every call of a wrapper on an object with a client puts exactly one
\* outcome on the reporter's queue, however the call ends; the outcome put
\* has its final status and messages: SUCCESS on return, FAILED with every
\* message of the checks for the aggregated AssertionError, ERROR with the
\* message for another exception of the client
C20_OneOutcomePerInvocation ==
    /\ \A i \in DOMAIN invocations :
          invocations[i].call.has_client => invocations[i].outcome # None
    /\ report_queue = Emitted
    /\ submitted = Emitted
    /\ unfinished_tasks = Len(Emitted)
    /\ \A i \in DOMAIN invocations :
          Received(invocations[i]) =>
            LET outcome == invocations[i].outcome[1]
                errors == run_validations(invocations[i].call.response,
                                          invocations[i].call.expect)
            IN  /\ invocations[i].exit = "return" =>
                      outcome.status = "SUCCESS" /\ errors = <<>>
                /\ invocations[i].exit # "return" =>
                      /\ invocations[i].exit = "AssertionError"
                      /\ outcome.status = "FAILED"
                      /\ outcome.validation_errors = Some(errors)
    /\ \A i \in DOMAIN invocations :
          invocations[i].call.has_client /\ invocations[i].call.body = "returns"
          /\ invocations[i].call.request # "response" =>
             /\ invocations[i].exit = invocations[i].call.request
             /\ invocations[i].outcome[1].status = "ERROR"

\* a call whose client raises: the wrapper re-raises and one ERROR outcome
\* is on the queue
C20_Witness ==
    /\ Len(invocations) = 1
    /\ invocations[1].exit = "RequestException"
    /\ Len(report_queue) = 1
    /\ report_queue[1].status = "ERROR"
    /\ report_queue[1].error_message = Some(<<"RequestException">>)


\* the header and body text of the entries of a sequence
TextOf(entries) == {entries[i][4] \o entries[i][5] : i \in DOMAIN entries}

\* C15: the value of a header of authorization, cookie or x-api-key, in any
\* casing, is in no entry put on the queue and in no line of the log file,
\* the marker stands in its place, and every other header is written with
\* its own value
C15_SensitiveHeadersAreMasked ==
    /\ \A text \in TextOf(logged) \cup TextOf(log_queue) \cup TextOf(log_text) :
          "secret" \notin Range(text)
    /\ \A i \in DOMAIN logged :
          log_args[i].headers # None =>
            \A j \in DOMAIN log_args[i].headers[1] :
                LET key == log_args[i].headers[1][j][1]
                    value == log_args[i].headers[1][j][2]
                    text == logged[i][4]
                IN  \E k \in DOMAIN text :
                        /\ k + 2 \in DOMAIN text
                        /\ text[k] = key
                        /\ text[k + 1] = ": "
                        /\ text[k + 2] = IF value = "secret" THEN Mask
                                         ELSE value

\* an entry with an Accept and a capitalised Authorization header, appended
\* to the log file
C15_Witness ==
    \E i \in DOMAIN logged :
        /\ log_args[i].headers # None
        /\ Len(log_args[i].headers[1]) = 2
        /\ log_args[i].headers[1][2] = <<"Authorization", "secret">>
        /\ Line(logged[i]) \in Range(log_text)

\* C16: the value of every body field named password, token or api_key, at
\* any depth of the body, is in no entry put on the queue, and the caller's
\* body is as it was
C16_BodyFieldsAreMasked ==
    /\ \A text \in TextOf(logged) : "hunter2" \notin Range(text)
    /\ \A i \in DOMAIN log_args :
          log_args[i].body # None => log_args[i].body_after = log_args[i].body


\* the outcomes of a sequence that have the key / the response code
WithKey(rs, key) == SelectSeq(rs, LAMBDA r : EndpointKey(r) = key)
WithCode(rs, code) == SelectSeq(rs, LAMBDA r : r.response_code = Some(code))
DurationsOf(rs) == [i \in DOMAIN rs |-> rs[i].execution_time]

\* C17: the report taken after ingesting rs has, for each key
\* "METHOD endpoint" of rs and no other, the mean of the durations of the
\* outcomes of rs with that key, and for each response code present in rs
\* and no other, the number of outcomes of rs with that code
C17_MeansAndHistogram ==
    snapshot # None =>
        LET report == snapshot[1]
            rs == SubSeq(ingests, 1, report.total_tests)
        IN  /\ DOMAIN report.average_response_times =
                  {EndpointKey(rs[i]) : i \in DOMAIN rs}
            /\ \A key \in DOMAIN report.average_response_times :
                  report.average_response_times[key] =
                      Quotient(SumSeq(DurationsOf(WithKey(rs, key))),
                               Len(WithKey(rs, key)))
            /\ DOMAIN report.status_code_distribution =
                  {rs[i].response_code[1] :
                      i \in {j \in DOMAIN rs : rs[j].response_code # None}}
            /\ \A code \in DOMAIN report.status_code_distribution :
                  report.status_code_distribution[code] =
                      Len(WithCode(rs, code))

\* the scenario of C17, in tenths of a second: (SUCCESS, 0.5, GET /users,
\* 200) then (FAILED, 1.5, GET /users, 500) is reported as total 2, passed
\* 1, failed 1, error 0, success_rate 50, average 1.0, histogram
\* {200: 1, 500: 1}
C17_Scenario ==
    (/\ snapshot # None
     /\ snapshot[1].total_tests = 2
     /\ Len(ingests) = 2
     /\ ingests[1].status = "SUCCESS" /\ ingests[1].execution_time = 5
     /\ ingests[1].response_code = Some(200)
     /\ ingests[2].status = "FAILED" /\ ingests[2].execution_time = 15
     /\ ingests[2].response_code = Some(500)
     /\ EndpointKey(ingests[1]) = <<"GET", " ", "/users">>
     /\ EndpointKey(ingests[2]) = <<"GET", " ", "/users">>)
    => /\ snapshot[1].passed_tests = 1
       /\ snapshot[1].failed_tests = 1
       /\ snapshot[1].error_tests = 0
       /\ snapshot[1].success_rate = <<50, 1>>
       /\ snapshot[1].average_response_times =
             [k \in {<<"GET", " ", "/users">>} |-> <<10, 1>>]
       /\ snapshot[1].status_code_distribution =
             [c \in {200, 500} |-> 1]

\* the scenario of C17 is reached
C17_ScenarioWitness ==
    /\ snapshot # None
    /\ snapshot[1].total_tests = 2
    /\ Len(ingests) = 2
    /\ ingests[1].status = "SUCCESS" /\ ingests[1].response_code = Some(200)
    /\ ingests[2].status = "FAILED" /\ ingests[2].response_code = Some(500)
    /\ ingests[1].execution_time = 5 /\ ingests[2].execution_time = 15
    /\ EndpointKey(ingests[1]) = EndpointKey(ingests[2])

\* C18: what a reader finds in a returned report is what get_metrics
\* returned, whatever add_result calls came later, and a reader's write into
\* the report leaves the collector as it was
C18_ReportIsACopy ==
    /\ (snapshot # None /\ reader_write = None) =>
          ReadBack(snapshot[1], metrics) = snapshot[1]
    /\ reader_write # None => reader_write[1].after = reader_write[1].before

\* C19: the worker appends an outcome to results and then ingests it: the
\* collector has ingested, once each and in order, all of results but the
\* outcome the worker has appended and not yet ingested, so
\* total_tests <= len(results) <= total_tests + 1
C19_AppendThenIngest ==
    /\ metrics.total_tests <= Len(results)
    /\ Len(results) <= metrics.total_tests + 1
    /\ metrics = IngestAll(IF worker_pc = "ingest"
                           THEN SubSeq(results, 1, Len(results) - 1)
                           ELSE results)
    /\ worker_pc = "ingest" => results[Len(results)] = worker_item[1]

\* the second outcome is appended and not yet ingested
C19_Witness ==
    /\ worker_pc = "ingest"
    /\ Len(results) = 2
    /\ metrics.total_tests = 1

\* the attempts of call c that ended with a response
Responded(c) == {k \in DOMAIN c.tries : c.tries[k] # "RequestException"}

\* the session.request calls made so far
RequestsSent ==
    SumSeq([i \in DOMAIN rq_history |-> Len(rq_history[i].tries)])
    + (IF rq_pc = "idle" THEN 0 ELSE Len(rq_tries))

\* C21: a call of _make_request that has ended returned the first response
\* it obtained and made no attempt after it; when every attempt raised
\* RequestException it made retry_attempts + 1 attempts, slept retry_delay
\* between two attempts and raised RequestException; every attempt put one
\* request entry on the log queue
C21_FirstResponseOrFullRetry ==
    /\ \A i \in DOMAIN rq_history :
          LET c == rq_history[i]
          IN  /\ Responded(c) # {} =>
                    /\ c.result = <<"returned", "response">>
                    /\ Responded(c) = {Len(c.tries)}
              /\ Responded(c) = {} =>
                    /\ Len(c.tries) = c.budget + 1
                    /\ c.slept = [k \in 1..c.budget |-> RetryDelayDefault]
                    /\ c.result = <<"raised", "RequestException">>
    /\ Cardinality({k \in DOMAIN logged : logged[k][1] = "REQUEST"})
          = RequestsSent + (IF rq_pc = "send" THEN 1 ELSE 0)

\* nothing put on a queue is dropped: an outcome is waiting, in the
\* worker's hands or in results; an entry is waiting, in the writer's hands
\* or was passed to _write_to_file
NothingDiscarded ==
    /\ Len(submitted) = Len(results) + Len(WorkerHolds) + Len(report_queue)
    /\ Len(logged) = Len(attempts) + Len(WriterHolds) + Len(log_queue)

\* C22: once its stop event is set each consumer eventually terminates; the
\* step by which it terminates is taken with its queue empty and its stop
\* event set, so it never terminates before the stop; no step, a poll
\* timeout included, discards an item
C22_ConsumersTerminateWhenDrained ==
    /\ stop_event ~> worker_pc = "done"
    /\ log_stop ~> writer_pc = "done"
    /\ [][worker_pc' = "done" /\ worker_pc # "done" =>
            stop_event /\ report_queue = <<>> /\ report_queue' = <<>>]_vars
    /\ [][writer_pc' = "done" /\ writer_pc # "done" =>
            log_stop /\ log_queue = <<>> /\ log_queue' = <<>>]_vars
    /\ [](~stop_event => worker_pc # "done")
    /\ [](~log_stop => writer_pc # "done")
    /\ []NothingDiscarded

\* each stop event was set after one put, and both consumers have
\* terminated after finishing with the item of their queue
C22_Witness ==
    /\ worker_pc = "done"
    /\ writer_pc = "done"
    /\ Len(results) = 1
    /\ Len(attempts) = 1
    /\ stopped_at = Some(1)
    /\ log_stopped_at = Some(1)

\* the state of the readers: the returned report, the export_csv call and
\* the export_json call
readers_state ==
    <<snapshot, csv_pc, csv_index, csv_file, csv_return, exports, json_vars>>

\* C23: a step that changes results or the collector is a step of the
\* worker between its get and its task_done, and changes nothing of the
\* producers and readers; a submit puts its outcome on the queue and leaves
\* results, the collector and the worker alone; a step of export_csv,
\* export_json or get_metrics leaves the queue, results and the collector
\* unchanged
C23_OnlyTheWorkerWrites ==
    [][/\ (results' # results \/ metrics' # metrics) =>
            /\ worker_pc \in {"append", "ingest"}
            /\ worker_pc' # worker_pc
            /\ UNCHANGED <<submitted, report_queue, readers_state>>
       /\ submitted' # submitted =>
            /\ report_queue' = put(report_queue, submitted'[Len(submitted')])
            /\ UNCHANGED <<results, metrics, worker_pc, worker_item,
                           stop_event>>
       /\ readers_state' # readers_state =>
            UNCHANGED <<report_queue, unfinished_tasks, results, metrics>>
      ]_vars

\* an outcome was submitted, the worker has appended and ingested it, and
\* export_csv, export_json and get_metrics have all read it
C23_Witness ==
    /\ Len(submitted) = 1
    /\ metrics.total_tests = 1
    /\ csv_return # None
    /\ Len(exports) = 1 /\ exports[1] = 1
    /\ Len(json_calls) >= 1
    /\ Len(json_calls[1].document.results) = 1
    /\ snapshot # None
    /\ snapshot[1].total_tests = 1

\* C24: in every document export_json has written, metrics.total_tests is
\* the number of entries of results, whatever the worker was doing during
\* the call
C24_DocumentIsConsistent ==
    \A i \in DOMAIN json_calls :
        json_calls[i].document.metrics.total_tests
            = Len(json_calls[i].document.results)

\* C25: the outcome a wrapped call enqueues has status SUCCESS exactly when
\* the wrapper returned the response; when the wrapper raised, whatever the
\* exception and wherever it came from, the status is FAILED or ERROR
C25_SuccessIffReturned ==
    \A i \in DOMAIN invocations :
        invocations[i].outcome # None =>
            /\ invocations[i].outcome[1].status = "SUCCESS"
                  <=> invocations[i].exit = "return"
            /\ invocations[i].exit # "return" =>
                  invocations[i].outcome[1].status \in {"FAILED", "ERROR"}

\* the TestResults of a sequence of submitted objects
WellFormed(rs) == SelectSeq(rs, LAMBDA r : HasAttr(r, "execution_time"))

\* the objects the worker has finished with, by task_done or by an exception
Processed ==
    IF worker_pc \in {"ingest", "task_done"}
    THEN SubSeq(results, 1, Len(results) - 1) ELSE results

\* C26: after the worker has met an object whose ingestion raises, it goes
\* on and appends every later outcome, and the collector is as if each
\* object it has finished with was ingested or was not ingested at all: it
\* holds the ingestion of the TestResults among them, so total_tests =
\* passed_tests + failed_tests + error_tests
C26_FailedIngestionLeavesNoTrace ==
    /\ worker_pc # "done"
    /\ Drained => Len(results) = Len(submitted)
    /\ worker_pc \notin {"ingest", "task_done"} =>
          /\ metrics = IngestAll(WellFormed(Processed))
          /\ metrics.total_tests = metrics.passed_tests
                + metrics.failed_tests + metrics.error_tests


=============================================================================
